---- MODULE Spec2Model ----
(***************************************************************************)
(* LBANN dense layer: the Layer base contract (lbann_layer.hpp) and        *)
(* FullyConnectedLayer (lbann_layer_fully_connected.cpp).                  *)
(*                                                                         *)
(* DataType values are modelled as exact rationals <<num, den>>, den > 0,  *)
(* in lowest terms.  A matrix is a record [Height, Width, e] whose entries *)
(* e[<<i, j>>] are indexed from 0, as in the source.  A distributed matrix *)
(* is modelled by its global contents; the element-cyclic distribution     *)
(* over the process grid is modelled where the source uses local indices.  *)
(***************************************************************************)
EXTENDS Integers, Sequences, FiniteSets, TLC

(* ------------------------------ bounds ------------------------------- *)
MaxNeurons == 2
MaxBatch == 2
MaxScale == 2
MaxGrid == 2
MaxUpdates == 1
MaxResidual == 3

(* ---------------------------- rationals ------------------------------ *)
Abs(x) == IF x < 0 THEN -x ELSE x

RECURSIVE GCD(_, _)
GCD(a, b) == IF b = 0 THEN a ELSE GCD(b, a % b)

Rat(n, d) == LET g == GCD(Abs(n), d) IN <<n \div g, d \div g>>
RInt(n) == <<n, 1>>
RZero == <<0, 1>>
ROne == <<1, 1>>
RAdd(a, b) == Rat(a[1] * b[2] + b[1] * a[2], a[2] * b[2])
RMul(a, b) == Rat(a[1] * b[1], a[2] * b[2])

(* ----------------------------- matrices ------------------------------ *)
Cells(h, w) == (0 .. h - 1) \X (0 .. w - 1)

Empty == [Height |-> 0, Width |-> 0, e |-> [ij \in {} |-> RZero]]

\* El::Zeros(M, h, w): resize to h x w and fill with zero
Zeros(h, w) == [Height |-> h, Width |-> w, e |-> [ij \in Cells(h, w) |-> RZero]]

Get(M, i, j) == M.e[<<i, j>>]
Set(M, i, j, v) == [M EXCEPT !.e[<<i, j>>] = v]

\* El::View(V, M, IR(r0, r1), IR(c0, c1)): the half-open sub-block, seen from 0
View(M, r0, r1, c0, c1) ==
    [Height |-> r1 - r0, Width |-> c1 - c0,
     e |-> [ij \in Cells(r1 - r0, c1 - c0) |-> M.e[<<ij[1] + r0, ij[2] + c0>>]]]

\* a write through a view whose top-left corner is (r0, c0) of M
WriteView(M, r0, c0, V) ==
    [M EXCEPT !.e = [ij \in DOMAIN M.e |->
        IF /\ ij[1] >= r0 /\ ij[1] < r0 + V.Height
           /\ ij[2] >= c0 /\ ij[2] < c0 + V.Width
        THEN V.e[<<ij[1] - r0, ij[2] - c0>>]
        ELSE M.e[ij]]]

RowOf(M, i) == [j \in 0 .. M.Width - 1 |-> Get(M, i, j)]

RECURSIVE RSum(_, _)
RSum(f, n) == IF n = 0 THEN RZero ELSE RAdd(RSum(f, n - 1), f[n - 1])

Transpose(A) ==
    [Height |-> A.Width, Width |-> A.Height,
     e |-> [ij \in Cells(A.Width, A.Height) |-> A.e[<<ij[2], ij[1]>>]]]

Orient(o, A) == IF o = "TRANSPOSE" THEN Transpose(A) ELSE A

MatMul(A, B) ==
    [Height |-> A.Height, Width |-> B.Width,
     e |-> [ij \in Cells(A.Height, B.Width) |->
              RSum([k \in 0 .. A.Width - 1 |-> RMul(Get(A, ij[1], k), Get(B, k, ij[2]))],
                   A.Width)]]

\* El::Gemm(oA, oB, alpha, A, B, beta, C): C := alpha op(A) op(B) + beta C
Gemm(oA, oB, alpha, A, B, beta, C) ==
    LET X == MatMul(Orient(oA, A), Orient(oB, B))
    IN  [Height |-> X.Height, Width |-> X.Width,
         e |-> [ij \in DOMAIN X.e |->
                  RAdd(RMul(alpha, X.e[ij]), RMul(beta, C.e[ij]))]]

\* El::Axpy(alpha, X, Y): Y := alpha X + Y
Axpy(alpha, X, Y) ==
    [Y EXCEPT !.e = [ij \in DOMAIN Y.e |-> RAdd(RMul(alpha, X.e[ij]), Y.e[ij])]]

(* ---------------- element-cyclic distribution (El::DistMatrix) -------- *)
\* number of global indices < n owned by the process at `shift` with `stride`
LocalLength(n, shift, stride) ==
    IF n > shift THEN ((n - shift - 1) \div stride) + 1 ELSE 0
GlobalIndex(iLoc, shift, stride) == shift + iLoc * stride
Owner(i, stride) == i % stride

(* ------------------------------ state -------------------------------- *)
VARIABLES
    NumNeurons,              \* # neurons N
    numPrevNeurons,          \* previous layer's neuron count P
    m_mini_batch_size,       \* configured mini-batch size B
    m_weight_initialization, \* initialization policy
    m_activation_type,
    m_execution_mode,
    m_effective_mbsize,
    grid,                    \* <<height, width>> of the model's process grid
    m_weights,
    m_weights_gradient,
    m_preactivations,
    m_prev_error_signal,
    m_error_signal,
    m_activations,
    m_prev_activations,
    view_cols,               \* column count of the mini-batch views (m_*_v)
    fp_input,
    bp_input,
    is_setup,                \* setup has run
    opt_calls,               \* optimizer->update_weight_bias_matrix calls
    ret,                     \* value the last call returned ("none": void)
    last_op,
    deltas,                  \* argument of the last computeCost
    cost,                    \* value returned by the last computeCost
    sweep                    \* checkGradient's scratch matrices and flags, per entry

config == <<NumNeurons, numPrevNeurons, m_mini_batch_size, m_weight_initialization,
            m_activation_type, grid>>
buffers == <<m_weights, m_weights_gradient, m_preactivations, m_prev_error_signal,
             m_error_signal, m_activations, m_prev_activations>>
vars == <<config, buffers, m_execution_mode, m_effective_mbsize, view_cols, fp_input,
          bp_input, is_setup, opt_calls, ret, last_op, deltas, cost, sweep>>

Policies == {"zero", "uniform", "normal", "glorot_normal", "glorot_uniform",
             "he_normal", "he_uniform"}
Modes == {"training", "validation", "testing"}
Activations == {"ID", "RELU"}

\* values a draw of the random generators can take (zero policy: none drawn)
Samples == {RInt(-1), RInt(1)}

(* --------------------------- construction ---------------------------- *)
\* FullyConnectedLayer constructor: the state before setup
Constructed(N, P, B, pol, act, g, fpin, bpin) ==
    /\ NumNeurons = N
    /\ m_activation_type = act
    /\ numPrevNeurons = P
    /\ m_mini_batch_size = B
    /\ m_weight_initialization = pol
    /\ grid = g
    /\ m_execution_mode = "training"
    /\ m_effective_mbsize = B
    /\ m_weights = Empty
    /\ m_weights_gradient = Empty
    /\ m_preactivations = Empty
    /\ m_prev_error_signal = Empty
    /\ m_error_signal = Empty
    /\ m_activations = Empty
    /\ m_prev_activations = Empty
    /\ view_cols = 0
    /\ fp_input = fpin
    /\ bp_input = bpin
    /\ is_setup = FALSE
    /\ opt_calls = 0
    /\ ret = "none"
    /\ last_op = "constructor"
    /\ cost = RZero
    /\ sweep = << >>

(* ------------------------------- setup ------------------------------- *)
\* a slip: the last local cell of grid process (0, 0), whoever owns (N, P)
InitWeightBias_rank0(N, P, g) ==
    LET Z == Zeros(N + 1, P + 1)
        iLoc == LocalLength(N + 1, 0, g[1]) - 1
        jLoc == LocalLength(P + 1, 0, g[2]) - 1
    IN  Set(Z, GlobalIndex(iLoc, 0, g[1]), GlobalIndex(jLoc, 0, g[2]), ROne)

\* lines 93-96: Zeros, then the owner of (N, P) writes 1 at its last local cell
InitWeightBias(N, P, g) ==
    LET Z == Zeros(N + 1, P + 1)
        pr == Owner(N, g[1])
        pc == Owner(P, g[2])
        iLoc == LocalLength(N + 1, pr, g[1]) - 1
        jLoc == LocalLength(P + 1, pc, g[2]) - 1
    IN  Set(Z, GlobalIndex(iLoc, pr, g[1]), GlobalIndex(jLoc, pc, g[2]), ROne)

\* line 100: the block of m_weights the fill is given
FillRows(N, P) == N
\* a slip: the view taken over all P + 1 columns
FillCols_withBias(N, P) == P + 1
FillCols(N, P) == P

\* the draws one fill can make: one value per cell of the filled block
Draws(pol, N, P) ==
    [Cells(FillRows(N, P), FillCols(N, P)) ->
        IF pol \in Policies \ {"zero"} THEN Samples ELSE {RZero}]

\* lines 98-138: the policy's fill, written through the view of line 100
FillWeights(W, N, P, draw) ==
    WriteView(W, 0, 0,
        [Height |-> FillRows(N, P), Width |-> FillCols(N, P), e |-> draw])

setup(draw) ==
    /\ draw \in Draws(m_weight_initialization, NumNeurons, numPrevNeurons)
    /\ m_weights' = FillWeights(InitWeightBias(NumNeurons, numPrevNeurons, grid),
                                NumNeurons, numPrevNeurons, draw)
    /\ m_weights_gradient' = Zeros(NumNeurons + 1, numPrevNeurons + 1)
    /\ m_prev_error_signal' = Zeros(NumNeurons + 1, m_mini_batch_size)
    /\ m_error_signal' = Zeros(numPrevNeurons + 1, m_mini_batch_size)
    /\ m_preactivations' = Zeros(NumNeurons + 1, m_mini_batch_size)
    /\ m_activations' = Zeros(NumNeurons + 1, m_mini_batch_size)
    /\ m_prev_activations' = Zeros(numPrevNeurons + 1, m_mini_batch_size)
    /\ view_cols' = m_mini_batch_size
    /\ is_setup' = TRUE
    /\ last_op' = "setup"
    /\ ret' = "none"
    /\ UNCHANGED <<config, m_execution_mode, m_effective_mbsize, fp_input, bp_input,
                   opt_calls, deltas, cost, sweep>>

(* ------------------------ Layer: bookkeeping ------------------------- *)
\* a slip: the views rebound to the effective size
set_effective_minibatch_size_views(size) ==
    /\ size >= 1
    /\ m_effective_mbsize' = size
    /\ view_cols' = size
    /\ last_op' = "set_effective_minibatch_size"
    /\ ret' = "none"
    /\ UNCHANGED <<config, buffers, m_execution_mode, fp_input, bp_input,
                   is_setup, opt_calls, deltas, cost, sweep>>

\* lbann_layer.hpp 109-111
set_effective_minibatch_size(size) ==
    /\ size >= 1
    /\ m_effective_mbsize' = size
    /\ last_op' = "set_effective_minibatch_size"
    /\ ret' = "none"
    /\ UNCHANGED <<config, buffers, m_execution_mode, view_cols, fp_input, bp_input,
                   is_setup, opt_calls, deltas, cost, sweep>>

\* lbann_layer.hpp 134: the public field the model assigns at each phase
set_execution_mode(mode) ==
    /\ mode \in Modes
    /\ m_execution_mode' = mode
    /\ last_op' = "set_execution_mode"
    /\ ret' = "none"
    /\ UNCHANGED <<config, buffers, m_effective_mbsize, view_cols, fp_input, bp_input,
                   is_setup, opt_calls, deltas, cost, sweep>>

\* Layer::fp_set_std_matrix_view: the view of a mini-batch buffer, its first b columns
BatchView(M, b) == View(M, 0, M.Height, 0, b)

\* the activation function and its derivative, elementwise
ActivationF(act, x) == IF act = "RELU" /\ x[1] <= 0 THEN RZero ELSE x
ActivationD(act, z) == IF act = "RELU" /\ z[1] <= 0 THEN RZero ELSE ROne

\* Layer::fp_nonlinearity: the activation applied through the activations' view
fp_nonlinearity(act, A, b) ==
    LET Av == BatchView(A, b)
    IN  WriteView(A, 0, 0,
            [Av EXCEPT !.e = [ij \in DOMAIN Av.e |-> ActivationF(act, Av.e[ij])]])

\* Layer::bp_nonlinearity: the error signal's view times the derivative at Z's view
bp_nonlinearity(act, Z, E, b) ==
    LET Zv == BatchView(Z, b)
        Ev == BatchView(E, b)
    IN  WriteView(E, 0, 0,
            [Ev EXCEPT !.e = [ij \in DOMAIN Ev.e |->
                RMul(Ev.e[ij], ActivationD(act, Zv.e[ij]))]])

(* --------------------------- forward pass ---------------------------- *)
\* a slip: the product added to what Z held (beta = 1)
fp_linearity_Z_accumulate(W, Aprev, Z) ==
    Gemm("NORMAL", "NORMAL", ROne, W, Aprev, ROne, Z)

\* lines 171-178: Z := W A_prev over the whole buffers
fp_linearity_Z(W, Aprev, Z) == Gemm("NORMAL", "NORMAL", ROne, W, Aprev, RZero, Z)
\* line 177: Copy(Z, A)
fp_linearity_A(Z) == Z

\* Layer::forwardProp for a step of b valid columns
forwardProp(b) ==
    /\ is_setup
    /\ b \in 1 .. m_mini_batch_size
    /\ LET Z == fp_linearity_Z(m_weights, fp_input, m_preactivations)
       IN  /\ m_preactivations' = Z
           /\ m_activations' = fp_nonlinearity(m_activation_type, fp_linearity_A(Z), b)
    /\ m_prev_activations' = fp_input
    /\ view_cols' = b
    /\ last_op' = "forwardProp"
    /\ ret' = "none"
    /\ UNCHANGED <<config, m_weights, m_weights_gradient, m_prev_error_signal,
                   m_error_signal, m_execution_mode, m_effective_mbsize, fp_input,
                   bp_input, is_setup, opt_calls, deltas, cost, sweep>>

(* --------------------------- backward pass --------------------------- *)
\* line 183: E_v := W_v^T Eprev_v, written through the error signal's view
bp_linearity_error(W, Eprev, E, b) ==
    LET Wv == View(W, 0, W.Height, 0, W.Width)
    IN  WriteView(E, 0, 0,
            Gemm("TRANSPOSE", "NORMAL", ROne, Wv, BatchView(Eprev, b), RZero,
                 BatchView(E, b)))

\* a slip: the gradient taken over the whole buffers instead of their views
bp_linearity_gradient_full(Eprev, Aprev, dW, b, eff) ==
    Gemm("NORMAL", "TRANSPOSE", Rat(1, eff), Eprev, Aprev, RZero, dW)

\* a slip: the gradient scaled by the views' column count
bp_linearity_gradient_local(Eprev, Aprev, dW, b, eff) ==
    Gemm("NORMAL", "TRANSPOSE", Rat(1, b), BatchView(Eprev, b), BatchView(Aprev, b),
         RZero, dW)

\* lines 185-186: dW_v := (1 / effective size) Eprev_v Aprev_v^T; dW_v views all of dW
bp_linearity_gradient(Eprev, Aprev, dW, b, eff) ==
    LET dWv == View(dW, 0, dW.Height, 0, dW.Width)
    IN  WriteView(dW, 0, 0,
            Gemm("NORMAL", "TRANSPOSE", Rat(1, eff), BatchView(Eprev, b),
                 BatchView(Aprev, b), RZero, dWv))

\* Layer::backProp for the current step
backProp ==
    /\ is_setup
    /\ LET Eprev == bp_nonlinearity(m_activation_type, m_preactivations, bp_input, view_cols)
       IN  /\ m_prev_error_signal' = Eprev
           /\ m_error_signal' = bp_linearity_error(m_weights, Eprev, m_error_signal, view_cols)
           /\ m_weights_gradient' =
                  bp_linearity_gradient(Eprev, m_prev_activations, m_weights_gradient,
                                        view_cols, m_effective_mbsize)
    /\ last_op' = "backProp"
    /\ ret' = "none"
    /\ UNCHANGED <<config, m_weights, m_preactivations, m_activations, m_prev_activations,
                   m_execution_mode, m_effective_mbsize, view_cols, fp_input, bp_input,
                   is_setup, opt_calls, deltas, cost, sweep>>

(* ------------------------------ update ------------------------------- *)
\* Optimizer::update_weight_bias_matrix(dW, W): plain gradient descent, unit rate
update_weight_bias_matrix(dW, W) == Axpy(RInt(-1), dW, W)

\* a slip: the optimizer called whatever the execution mode
update_always ==
    /\ is_setup
    /\ opt_calls < MaxUpdates
    /\ m_weights' = update_weight_bias_matrix(m_weights_gradient, m_weights)
    /\ opt_calls' = opt_calls + 1
    /\ ret' = TRUE
    /\ last_op' = "update"
    /\ UNCHANGED <<config, m_weights_gradient, m_preactivations, m_prev_error_signal,
                   m_error_signal, m_activations, m_prev_activations, m_execution_mode,
                   m_effective_mbsize, view_cols, fp_input, bp_input, is_setup,
                   deltas, cost, sweep>>

\* lines 212-218
update ==
    /\ is_setup
    /\ IF m_execution_mode = "training"
       THEN /\ opt_calls < MaxUpdates
            /\ m_weights' = update_weight_bias_matrix(m_weights_gradient, m_weights)
            /\ opt_calls' = opt_calls + 1
       ELSE UNCHANGED <<m_weights, opt_calls>>
    /\ ret' = TRUE
    /\ last_op' = "update"
    /\ UNCHANGED <<config, m_weights_gradient, m_preactivations, m_prev_error_signal,
                   m_error_signal, m_activations, m_prev_activations, m_execution_mode,
                   m_effective_mbsize, view_cols, fp_input, bp_input, is_setup,
                   deltas, cost, sweep>>

\* lbann_layer.hpp 60: the base class's update
Layer_update ==
    /\ ret' = FALSE
    /\ last_op' = "Layer::update"
    /\ UNCHANGED <<config, buffers, m_execution_mode, m_effective_mbsize, view_cols,
                   fp_input, bp_input, is_setup, opt_calls, deltas, cost, sweep>>

(* ---------------------------- computeCost --------------------------- *)
\* the root of a perfect square
Sqrt(n) == CHOOSE r \in 0 .. n : r * r = n

SumSquares(M, j) ==
    RSum([i \in 0 .. M.Height - 1 |-> RMul(Get(M, i, j), Get(M, i, j))], M.Height)

\* El::ColumnTwoNorms(deltas, norms): norms is deltas.Width x 1, the column 2-norms
ColumnTwoNorms(D) ==
    [Height |-> D.Width, Width |-> 1,
     e |-> [ij \in Cells(D.Width, 1) |-> RInt(Sqrt(SumSquares(D, ij[1])[1]))]]

\* lines 196-198 on process p of the np processes norms is distributed over
LocalTotal(norms, p, np) ==
    RSum([r \in 0 .. LocalLength(norms.Height, p, np) - 1 |->
             Get(norms, GlobalIndex(r, p, np), 0)],
         LocalLength(norms.Height, p, np))

\* line 199: mpi::AllReduce(total_error, norms.DistComm()), a sum
AllReduce(norms, np) == RSum([p \in 0 .. np - 1 |-> LocalTotal(norms, p, np)], np)

\* a slip: the mean taken over the rows of deltas
computeCostValue_rows(D, np) ==
    LET t == AllReduce(ColumnTwoNorms(D), np) IN Rat(t[1], t[2] * D.Height)

\* lines 189-202: total_error / norms.Height()
computeCostValue(D, np) ==
    LET norms == ColumnTwoNorms(D)
        t == AllReduce(norms, np)
    IN  Rat(t[1], t[2] * norms.Height)

\* computeCost(deltas) on the residual matrix the caller holds
computeCost ==
    /\ deltas.Width >= 1
    /\ cost' = computeCostValue(deltas, grid[2])
    /\ last_op' = "computeCost"
    /\ ret' = "none"
    /\ UNCHANGED <<config, buffers, m_execution_mode, m_effective_mbsize, view_cols,
                   fp_input, bp_input, is_setup, opt_calls, deltas, sweep>>

\* residual matrices: one column vector per column, zero or of a whole-number norm
ColumnVectors(h) ==
    {[i \in 0 .. h - 1 |-> RZero]}
    \cup {[i \in 0 .. h - 1 |-> IF i = r THEN RInt(v) ELSE RZero] :
            r \in 0 .. h - 1, v \in {-3, 2}}
    \cup {[i \in 0 .. h - 1 |-> IF i = 0 THEN RInt(3) ELSE IF i = h - 1 THEN RInt(4)
                                 ELSE RZero]}

\* at most two nonzero columns: column c holds u, column w - 1 holds v
Residuals(h, w) ==
    {[Height |-> h, Width |-> w,
      e |-> [ij \in Cells(h, w) |->
               IF ij[2] = c THEN u[ij[1]]
               ELSE IF ij[2] = w - 1 THEN v[ij[1]] ELSE RZero]] :
        c \in 0 .. w - 1, u \in ColumnVectors(h), v \in ColumnVectors(h)}

(* --------------------------- checkGradient --------------------------- *)
\* lines 245-277: SetLocal(GetLocal + x) by the process that owns (i, j)
AddLocal(M, i, j, x) == Set(M, i, j, RAdd(Get(M, i, j), x))

\* lines 303, 311: x > 1e-12 || x < -1e-12
AboveTolerance(x) == x[1] # 0 /\ (x[2] \div 1000000) < Abs(x[1]) * 1000000

\* lines 297-317: the processes of grid g whose local entries set the flag
BadFlags(D, row, g) ==
    {p \in (0 .. g[1] - 1) \X (0 .. g[2] - 1) :
        \E r \in 0 .. D.Height - 1, c \in 0 .. D.Width - 1 :
            /\ Owner(r, g[1]) = p[1] /\ Owner(c, g[2]) = p[2]
            /\ AboveTolerance(Get(D, r, c))
            /\ r # row}

\* lines 222-254: the scratch matrices before the sweep, entry (0, 0) perturbed
SweepStart(W, A, Epsilon) ==
    [WB_E1 |-> AddLocal(W, 0, 0, Epsilon),
     WB_E2 |-> AddLocal(W, 0, 0, RMul(RInt(-1), Epsilon)),
     Acts_E1 |-> Zeros(A.Height, A.Width),
     Acts_E2 |-> Zeros(A.Height, A.Width),
     prow |-> 0, pcol |-> 0]

\* lines 258-338: one entry of the sweep; the forward passes of lines 280-289 are
\* comments, so Acts_E1 and Acts_E2 only have the activations subtracted once more
SweepBody(st, row, col, Epsilon, A, g) ==
    LET minus == RMul(RInt(-1), Epsilon)
        E1 == AddLocal(AddLocal(st.WB_E1, st.prow, st.pcol, minus), row, col, Epsilon)
        E2 == AddLocal(AddLocal(st.WB_E2, st.prow, st.pcol, Epsilon), row, col, minus)
        D1 == Axpy(RInt(-1), A, st.Acts_E1)
        D2 == Axpy(RInt(-1), A, st.Acts_E2)
    IN  [WB_E1 |-> E1, WB_E2 |-> E2, Acts_E1 |-> D1, Acts_E2 |-> D2,
         prow |-> row, pcol |-> col,
         row |-> row, col |-> col, Epsilon |-> Epsilon,
         bad_E1 |-> BadFlags(D1, row, g), bad_E2 |-> BadFlags(D2, row, g)]

\* lines 255-340: the entries in row-major order, k the number already swept
RECURSIVE RunSweep(_, _, _, _, _, _, _)
RunSweep(st, k, W, Epsilon, A, g, log) ==
    IF k = W.Height * W.Width THEN log
    ELSE LET b == SweepBody(st, k \div W.Width, k % W.Width, Epsilon, A, g)
         IN  RunSweep(b, k + 1, W, Epsilon, A, g, Append(log, b))

\* values of Epsilon a caller passes
Epsilons == {ROne, Rat(1, 2)}

\* checkGradient(PrevLayer, Epsilon): the layer is left as it was; the value returned
\* is sqrt(0 / 0)
checkGradient(Epsilon) ==
    /\ is_setup
    /\ Epsilon \in Epsilons
    /\ sweep' = RunSweep(SweepStart(m_weights, m_activations, Epsilon), 0, m_weights,
                         Epsilon, m_activations, grid, << >>)
    /\ ret' = "NaN"
    /\ last_op' = "checkGradient"
    /\ UNCHANGED <<config, buffers, m_execution_mode, m_effective_mbsize, view_cols,
                   fp_input, bp_input, is_setup, opt_calls, deltas, cost>>

(* ------------------------- propagation inputs ------------------------ *)
Ones(h, w) == [Height |-> h, Width |-> w, e |-> [ij \in Cells(h, w) |-> ROne]]
Unit(h, w, i, j) == Set(Zeros(h, w), i, j, ROne)

\* the all-ones buffer and the buffers whose only nonzero entry is in the first or
\* in the last row
FineInputs(h, w) ==
    {Ones(h, w)} \cup {Unit(h, w, i, j) : i \in {0, h - 1}, j \in 0 .. w - 1}

(* --------------------- specification: setup only --------------------- *)
InitSetup ==
    /\ \E N \in 1 .. MaxNeurons, P \in 1 .. MaxNeurons, B \in 1 .. MaxBatch,
          pol \in Policies, gh \in 1 .. MaxGrid, gw \in 1 .. MaxGrid :
           Constructed(N, P, B, pol, "ID", <<gh, gw>>, Zeros(P + 1, B), Zeros(N + 1, B))
    /\ deltas = Empty

DoSetup == \E draw \in Draws(m_weight_initialization, NumNeurons, numPrevNeurons) : setup(draw)

FirstSetup == ~is_setup /\ DoSetup

NextSetup == FirstSetup

SpecSetup == InitSetup /\ [][NextSetup]_vars

(* ------------------ specification: the training loop ----------------- *)
Init ==
    /\ Constructed(MaxNeurons, 1, MaxBatch, "zero", "ID", <<1, 1>>,
                   Ones(2, MaxBatch), Unit(MaxNeurons + 1, MaxBatch, MaxNeurons, 0))
    /\ deltas = Empty

SetupUniform ==
    \E v \in Samples \cup {RZero} :
        setup([ij \in Cells(NumNeurons, numPrevNeurons) |-> v])

DoSetEffective ==
    \E k \in 1 .. MaxScale : set_effective_minibatch_size(k * m_mini_batch_size)

DoSetMode == \E mode \in Modes : set_execution_mode(mode)

DoForwardProp == \E b \in 1 .. m_mini_batch_size : forwardProp(b)

Next ==
    \/ SetupUniform
    \/ DoSetEffective
    \/ DoSetMode
    \/ DoForwardProp
    \/ backProp
    \/ update
    \/ Layer_update

Spec == Init /\ [][Next]_vars

(* ---------------- specification: one step's gradient ----------------- *)
InitBp ==
    /\ \E N \in 1 .. MaxNeurons, P \in 1 .. MaxNeurons, act \in Activations :
        \E fpin \in FineInputs(P + 1, MaxBatch), bpin \in FineInputs(N + 1, MaxBatch) :
            Constructed(N, P, MaxBatch, "uniform", act, <<1, 1>>, fpin, bpin)
    /\ deltas = Empty

\* one training step: setup, the effective size, the forward pass, the backward pass
StepSetup == ~is_setup /\ SetupUniform
StepSetEffective == last_op = "setup" /\ DoSetEffective
StepForwardProp ==
    last_op \in {"setup", "set_effective_minibatch_size"} /\ DoForwardProp
StepBackProp == last_op = "forwardProp" /\ backProp

NextBp ==
    \/ StepSetup
    \/ StepSetEffective
    \/ StepForwardProp
    \/ StepBackProp

SpecBp == InitBp /\ [][NextBp]_vars

(* ------------------ specification: computeCost alone ---------------- *)
InitCost ==
    /\ \E gh \in 1 .. MaxGrid, gw \in 1 .. MaxGrid :
           Constructed(1, 1, 1, "zero", "ID", <<gh, gw>>, Zeros(2, 1), Zeros(2, 1))
    /\ \E h \in 1 .. MaxResidual, w \in 1 .. MaxResidual : deltas \in Residuals(h, w)

NextCost == computeCost

SpecCost == InitCost /\ [][NextCost]_vars

(* ---------------- specification: the gradient checker ---------------- *)
InitCheck ==
    /\ \E N \in 1 .. MaxNeurons, B \in 1 .. MaxBatch, act \in Activations,
          gh \in 1 .. MaxGrid, gw \in 1 .. MaxGrid :
        \E fpin \in FineInputs(2, B) :
            Constructed(N, 1, B, "uniform", act, <<gh, gw>>, fpin, Zeros(N + 1, B))
    /\ deltas = Empty

DoCheckGradient == \E Epsilon \in Epsilons : checkGradient(Epsilon)
StepCheckGradient == last_op = "forwardProp" /\ DoCheckGradient

NextCheck ==
    \/ StepSetup
    \/ StepForwardProp
    \/ StepCheckGradient

SpecCheck == InitCheck /\ [][NextCheck]_vars

(* ------------------------- claims about setup ------------------------ *)
AugmentationRow(P) == [j \in 0 .. P |-> IF j = P THEN ROne ELSE RZero]

\* C1: right after setup, W is (N+1) x (P+1), its row N is [0,...,0,1] and, under the
\* zero policy, every entry of rows 0..N-1 is 0.
C1_SetupShape ==
    last_op = "setup" =>
        /\ m_weights.Height = NumNeurons + 1
        /\ m_weights.Width = numPrevNeurons + 1
        /\ DOMAIN m_weights.e = Cells(NumNeurons + 1, numPrevNeurons + 1)
        /\ RowOf(m_weights, NumNeurons) = AugmentationRow(numPrevNeurons)
        /\ m_weight_initialization = "zero" =>
              \A i \in 0 .. NumNeurons - 1, j \in 0 .. numPrevNeurons :
                  Get(m_weights, i, j) = RZero

C1_Witness ==
    /\ last_op = "setup"
    /\ m_weight_initialization = "zero"
    /\ NumNeurons = 2 /\ numPrevNeurons = 1
    /\ grid = <<2, 2>>
    /\ Get(m_weights, 2, 1) = ROne

\* C2: right after setup, under every initialization policy, the bias column entries
\* W(i, P), 0 <= i < N, are 0: the fill writes rows 0..N-1 and columns 0..P-1 only.
C2_BiasColumnZero ==
    last_op = "setup" =>
        \A i \in 0 .. NumNeurons - 1 : Get(m_weights, i, numPrevNeurons) = RZero

C2_Witness ==
    /\ last_op = "setup"
    /\ m_weight_initialization = "he_uniform"
    /\ NumNeurons = 2 /\ numPrevNeurons = 2
    /\ \A i \in 0 .. 1, j \in 0 .. 1 : Get(m_weights, i, j) # RZero
    /\ Get(m_weights, 0, 2) = RZero

\* C7: setup is accepted once: once a setup has run, no later call runs it again,
\* and W, dW and the other owned buffers are not re-initialized.
C7_SetupOnce ==
    [][(is_setup /\ last_op' = "setup") => UNCHANGED buffers]_vars

(* ------------------- claims about the backward pass ------------------ *)
ScaleMat(a, M) == [M EXCEPT !.e = [ij \in DOMAIN M.e |-> RMul(a, M.e[ij])]]

IsZero(M) == \A ij \in DOMAIN M.e : M.e[ij] = RZero

\* C3: after backProp, dW = (1 / effective size) E_next A_prev^T over the views, and with
\* the effective size at k times the local mini-batch size, k dW equals the gradient
\* the same buffers give with the effective size at the local mini-batch size.
C3_EffectiveScaling ==
    last_op = "backProp" =>
        /\ m_weights_gradient =
               ScaleMat(Rat(1, m_effective_mbsize),
                        MatMul(BatchView(m_prev_error_signal, view_cols),
                               Transpose(BatchView(m_prev_activations, view_cols))))
        /\ \A k \in 1 .. MaxScale :
               m_effective_mbsize = k * m_mini_batch_size =>
                   ScaleMat(RInt(k), m_weights_gradient) =
                       bp_linearity_gradient(m_prev_error_signal, m_prev_activations,
                                             m_weights_gradient, view_cols,
                                             m_mini_batch_size)

C3_Witness ==
    /\ last_op = "backProp"
    /\ m_effective_mbsize = MaxScale * m_mini_batch_size
    /\ view_cols < m_mini_batch_size
    /\ ~IsZero(m_weights_gradient)

\* what the columns past the valid ones are replaced by
TailInputs(h, w) == {Zeros(h, w), Ones(h, w), Unit(h, w, h - 1, w - 1)}

\* columns 0..b-1 of M, columns b.. of T
Splice(M, T, b) ==
    [M EXCEPT !.e = [ij \in DOMAIN M.e |-> IF ij[2] < b THEN M.e[ij] ELSE T.e[ij]]]

\* dW of a forward and a backward pass of the current step over the given input buffers
StepGradient(fpin, bpin) ==
    LET Z == fp_linearity_Z(m_weights, fpin, m_preactivations)
        Eprev == bp_nonlinearity(m_activation_type, Z, bpin, view_cols)
    IN  bp_linearity_gradient(Eprev, fpin, m_weights_gradient, view_cols,
                              m_effective_mbsize)

\* C4: after the forward and backward pass of a step of b < B valid columns, dW is the
\* one any input buffers give that agree with the step's on columns 0..b-1.
C4_PartialBatch ==
    (last_op = "backProp" /\ view_cols < m_mini_batch_size) =>
        \A TA \in TailInputs(numPrevNeurons + 1, m_mini_batch_size),
           TE \in TailInputs(NumNeurons + 1, m_mini_batch_size) :
            StepGradient(Splice(fp_input, TA, view_cols),
                         Splice(bp_input, TE, view_cols)) = m_weights_gradient

C4_Witness ==
    /\ last_op = "backProp"
    /\ view_cols < m_mini_batch_size
    /\ ~IsZero(m_weights_gradient)
    /\ \E i \in 0 .. numPrevNeurons :
           Get(fp_input, i, m_mini_batch_size - 1) # RZero
    /\ \E i \in 0 .. NumNeurons :
           Get(bp_input, i, m_mini_batch_size - 1) # RZero

\* C9: dW has the shape of W and its augmentation row N is all zero after setup and
\* after every backward pass, whatever E_next holds.
C9_GradientAugmentationRow ==
    is_setup =>
        /\ m_weights_gradient.Height = m_weights.Height
        /\ m_weights_gradient.Width = m_weights.Width
        /\ \A j \in 0 .. numPrevNeurons : Get(m_weights_gradient, NumNeurons, j) = RZero

(* --------------------- claims about the training loop ---------------- *)
\* C5: an update step returns true; in training mode it makes one optimizer call on
\* (dW, W) and leaves dW alone, in any other mode it changes neither W nor dW and
\* makes no optimizer call; the base Layer::update changes nothing and returns false.
C5_UpdateByMode ==
    [][/\ last_op' = "update" =>
            /\ ret' = TRUE
            /\ m_weights_gradient' = m_weights_gradient
            /\ IF m_execution_mode = "training"
               THEN /\ opt_calls' = opt_calls + 1
                    /\ m_weights' = update_weight_bias_matrix(m_weights_gradient, m_weights)
               ELSE UNCHANGED <<m_weights, opt_calls>>
       /\ last_op' = "Layer::update" =>
            /\ ret' = FALSE
            /\ UNCHANGED <<buffers, opt_calls>>]_vars

C5_Witness ==
    /\ last_op = "update"
    /\ ret = TRUE
    /\ m_execution_mode # "training"
    /\ ~IsZero(m_weights_gradient)
    /\ opt_calls = 0
    /\ RowOf(m_weights, NumNeurons) = AugmentationRow(numPrevNeurons)

MiniBatchBuffers ==
    <<m_preactivations, m_activations, m_prev_activations, m_prev_error_signal,
      m_error_signal>>

C10_WeightAugmentationRow ==
    is_setup =>
        /\ m_weights.Height = NumNeurons + 1
        /\ m_weights.Width = numPrevNeurons + 1
        /\ RowOf(m_weights, NumNeurons) = AugmentationRow(numPrevNeurons)

(* ------------------------ claims about computeCost ------------------- *)
NonzeroColumns(D) == {j \in 0 .. D.Width - 1 : \E i \in 0 .. D.Height - 1 : Get(D, i, j) # RZero}

ColumnNorm(D, j) == Sqrt(SumSquares(D, j)[1])

\* C6 (as amended): computeCost returns the sum of the columns' 2-norms divided by the
\* column count of deltas: 0 for a zero matrix, v / columnCount for one nonzero column
\* of norm v.
C6_CostPerColumn ==
    last_op = "computeCost" =>
        /\ IsZero(deltas) => cost = RZero
        /\ \A j \in NonzeroColumns(deltas) :
               NonzeroColumns(deltas) = {j} => cost = Rat(ColumnNorm(deltas, j), deltas.Width)
        /\ RMul(cost, RInt(deltas.Width)) =
               RSum([j \in 0 .. deltas.Width - 1 |-> RInt(ColumnNorm(deltas, j))],
                    deltas.Width)

C6_Witness ==
    /\ last_op = "computeCost"
    /\ deltas.Height = 2 /\ deltas.Width = 3
    /\ NonzeroColumns(deltas) = {1}
    /\ cost = Rat(5, 3)
    /\ grid = <<1, 1>>

\* C6 (as claimed): 0 for a zero matrix, v / rowCount for one nonzero column of norm v.
C6_CostPerRow ==
    last_op = "computeCost" =>
        /\ IsZero(deltas) => cost = RZero
        /\ \A j \in NonzeroColumns(deltas) :
               (NonzeroColumns(deltas) = {j} /\ grid = <<1, 1>>) =>
                   cost = Rat(ColumnNorm(deltas, j), deltas.Height)

ForwardFrom(W) ==
    fp_nonlinearity(m_activation_type,
                    fp_linearity_A(fp_linearity_Z(W, m_prev_activations, m_preactivations)),
                    view_cols)

LeaksOutside(D, row) ==
    \E r \in 0 .. D.Height - 1, c \in 0 .. D.Width - 1 : r # row /\ Get(D, r, c) # RZero

\* C12 (as claimed): for each entry (row, col) of the sweep the scratch copies are W
\* with only that entry changed by +Epsilon and by -Epsilon, the scratch activations
\* are the forward activations of the scratch weights minus the unperturbed ones, and
\* a bad entry is reported exactly when that difference is nonzero outside row `row`.
C12_PerturbedDifference ==
    last_op = "checkGradient" =>
        \A k \in 1 .. Len(sweep) :
            LET s == sweep[k]
                D1 == Axpy(RInt(-1), m_activations, ForwardFrom(s.WB_E1))
                D2 == Axpy(RInt(-1), m_activations, ForwardFrom(s.WB_E2))
            IN  /\ s.WB_E1 = AddLocal(m_weights, s.row, s.col, s.Epsilon)
                /\ s.WB_E2 = AddLocal(m_weights, s.row, s.col, RMul(RInt(-1), s.Epsilon))
                /\ s.Acts_E1 = D1
                /\ s.Acts_E2 = D2
                /\ (s.bad_E1 # {}) <=> LeaksOutside(D1, s.row)
                /\ (s.bad_E2 # {}) <=> LeaksOutside(D2, s.row)

\* what the sweep does: every entry is visited once in row-major order with the scratch
\* weights as claimed, but entry k's scratch activations are -k times the unperturbed
\* activations, the same for both copies
C12_SweepAsCoded ==
    last_op = "checkGradient" =>
        /\ Len(sweep) = (NumNeurons + 1) * (numPrevNeurons + 1)
        /\ \A k \in 1 .. Len(sweep) :
            LET s == sweep[k]
            IN  /\ s.row = (k - 1) \div (numPrevNeurons + 1)
                /\ s.col = (k - 1) % (numPrevNeurons + 1)
                /\ s.WB_E1 = AddLocal(m_weights, s.row, s.col, s.Epsilon)
                /\ s.WB_E2 = AddLocal(m_weights, s.row, s.col, RMul(RInt(-1), s.Epsilon))
                /\ s.Acts_E1 = ScaleMat(RInt(-k), m_activations)
                /\ s.Acts_E2 = s.Acts_E1
                /\ (s.bad_E1 # {}) <=> LeaksOutside(m_activations, s.row)

\* a bad entry reported for (0, 0) although perturbing it changes row 0 only
C12_FalseReport ==
    /\ last_op = "checkGradient"
    /\ sweep[1].bad_E1 # {}
    /\ ~LeaksOutside(Axpy(RInt(-1), m_activations, ForwardFrom(sweep[1].WB_E1)), 0)

====
